---- MODULE Spec2Model ----
(***************************************************************************)
(* Job orchestration layer of whisper-server: the Celery task              *)
(* process_audio_async (tasks.py), the queue endpoints                     *)
(* (app/queue_endpoints.py) and the worker/broker settings of              *)
(* app/celery_app.py.  The result backend is the store, the broker queue   *)
(* is the set of task messages, and a pool worker takes a message whenever    *)
(* one is free (the pool size is a deployment setting).                    *)
(***************************************************************************)
EXTENDS Integers, Sequences, FiniteSets, TLC

VARIABLES
    store,          \* result backend: job id -> stored task meta (NoRecord when the key is absent)
    queue,          \* broker: task messages waiting for a worker
    active,         \* the requests the pool workers are executing, one per busy worker
    nextId,         \* next task id handed out by .delay()
    revokeInFlight, \* revoke broadcasts sent by cancel_job and not yet handled by the workers
    revoked,        \* the workers' in-memory set of revoked task ids
    retries,        \* job id -> self.request.retries of the job's latest request
    attempts,       \* job id -> number of executions started (history)
    failures,       \* job id -> number of executions ended by an exception (history)
    lostCount,      \* number of messages the broker has redelivered so far (history, bounded)
    cancelledRunning, \* ids for which cancel_job was called while the job was executing in PROGRESS (history)
    seen,           \* the response a polling client kept to compare later ones with (history)
    temp,           \* the scratch audio files on the workers' disks: <<job id, attempt>> of the execution
                    \* that made each; nothing reads them back, so only ScratchSpec follows them
    view,           \* the response GET /queue/status/{job_id} is returning (NoView otherwise)
    bstore,         \* result backend: batch id -> stored meta of the process_batch_audio task
    bqueue,         \* broker: process_batch_audio messages waiting for a worker
    bactive,        \* the process_batch_audio requests being executed
    nextBatch,      \* next task id handed out to a batch task
    bresp,          \* batch id -> what POST /queue/submit-batch answered ("waiting" while in get())
    bview,          \* the response GET /queue/batch-status/{batch_id} is returning (NoBView otherwise)
    bhist,          \* batch id -> the number of files submitted, the job ids its task created,
                    \* the job_ids POST /queue/submit-batch returned and the latest
                    \* summary a polling client got (history)
    subresp,        \* the request POST /queue/submit-batch just handled and its immediate answer (NoSubmit otherwise)
    result,         \* the segments model.transcribe() returned to the execution being analysed
    options,        \* the options of that execution
    metrics,        \* the reading metrics stage 4 computed from them (NoMetrics before)
    model_cache,    \* _model_cache of one worker process: model name -> instance (0 when absent)
    callers,        \* the calls of get_whisper_model in that process: position, model name, instance returned
    loads           \* model name -> number of whisper.load_model calls that returned (history)

jobVars == <<store, queue, active, nextId, revokeInFlight, revoked, retries,
             attempts, failures, lostCount, cancelledRunning, seen, temp, view>>

batchVars == <<bstore, bqueue, bactive, nextBatch, bresp, bview, bhist, subresp>>

\* what one execution holds in its worker process
localVars == <<result, options, metrics, model_cache, callers, loads>>

vars == <<jobVars, batchVars, localVars>>

----------------------------------------------------------------------------
(* Bounds of the model *)

NJobs == 1
MaxLost == 1
NBatches == 1
MaxFiles == 2
NMembers == 1
MaxSegments == 2
NCallers == 2
MaxLoads == 3

(* Program constants *)

max_retries == 3
base_delay == 60
batch_max_retries == 2
batch_retry_delay == 120
BatchCap == 50

\* task ids of single jobs (the first NJobs) and of the member jobs of batches
JobIds == 1..(NJobs + NMembers)

BatchIds == 1..NBatches

----------------------------------------------------------------------------
(* Result backend *)

NoRecord == [status |-> "NONE", progress |-> 0, result |-> "none", att |-> 0]

Rec(s, p, r, a) == [status |-> s, progress |-> p, result |-> r, att |-> a]

READY_STATES == {"SUCCESS", "FAILURE", "REVOKED"}

\* AsyncResult(job_id).status: a key the backend does not hold reads as PENDING
AsyncStatus(rec) == IF rec.status = "NONE" THEN "PENDING" ELSE rec.status

\* a ready() that forgets the REVOKED state
AsyncReadyNoRevoked(rec) == AsyncStatus(rec) \in {"SUCCESS", "FAILURE"}

\* AsyncResult(job_id).ready()
AsyncReady(rec) == AsyncStatus(rec) \in READY_STATES

\* AsyncResult(job_id).successful()
AsyncSuccessful(rec) == AsyncStatus(rec) = "SUCCESS"

\* AsyncResult(job_id).failed()
AsyncFailed(rec) == AsyncStatus(rec) = "FAILURE"

Bool3(b) == IF b THEN "true" ELSE "false"

----------------------------------------------------------------------------
(* Workers and messages *)

Msg(j, r, c) == [id |-> j, retries |-> r, countdown |-> c]

Running(j, r, c, p) == [id |-> j, retries |-> r, countdown |-> c, pc |-> p]

RECURSIVE Pow2(_)
Pow2(k) == IF k = 0 THEN 1 ELSE 2 * Pow2(k - 1)

\* a backoff that grows linearly instead of doubling
RetryCountdownLinear(r) == 60 * (r + 1)

\* countdown=60 * (2 ** self.request.retries)
RetryCountdown(r) == 60 * Pow2(r)

\* a budget test that is off by one
MayRetryOffByOne(r) == r <= max_retries

\* if self.request.retries < self.max_retries
MayRetry(r) == r < max_retries

\* a stage table whose transcription stage reports less than the stage before it
StagePercentDip(pc) ==
    CASE pc = "start" -> 10
      [] pc = "p10" -> 20
      [] pc = "p20" -> 15
      [] pc = "p30" -> 70
      [] pc = "p70" -> 90

\* the percent written on entering each stage
StagePercent(pc) ==
    CASE pc = "start" -> 10
      [] pc = "p10" -> 20
      [] pc = "p20" -> 30
      [] pc = "p30" -> 70
      [] pc = "p70" -> 90

StageNext(pc) ==
    CASE pc = "start" -> "p10"
      [] pc = "p10" -> "p20"
      [] pc = "p20" -> "p30"
      [] pc = "p30" -> "p70"
      [] pc = "p70" -> "p90"

Stages == {"p10", "p20", "p30", "p70", "p90"}

----------------------------------------------------------------------------
(* GET /queue/status/{job_id} *)

NoView == [job |-> 0, found |-> FALSE, status |-> "NONE", ready |-> FALSE,
           successful |-> "null", failed |-> "null", result |-> "null",
           error |-> "null", progress |-> 0]

JobView(j, rec) ==
    [job |-> j,
     found |-> rec # NoRecord,
     status |-> AsyncStatus(rec),
     ready |-> AsyncReady(rec),
     successful |-> IF AsyncReady(rec) THEN Bool3(AsyncSuccessful(rec)) ELSE "null",
     failed |-> IF AsyncReady(rec) THEN Bool3(AsyncFailed(rec)) ELSE "null",
     result |-> IF AsyncReady(rec) /\ AsyncSuccessful(rec) THEN rec.result ELSE "null",
     error |-> IF AsyncReady(rec) /\ ~AsyncSuccessful(rec) THEN rec.result ELSE "null",
     progress |-> IF ~AsyncReady(rec) /\ AsyncStatus(rec) = "PROGRESS" THEN rec.progress ELSE 0]

----------------------------------------------------------------------------
(* History of what clients did and saw *)

\* a request of job j that is inside the task function (not yet returned)
Executing(a, j) == a.id = j /\ a.pc # "done"

\* the job is mid-execution: a worker is running it and its status is PROGRESS
MidExecution(j) ==
    /\ store[j].status = "PROGRESS"
    /\ \E a \in active : Executing(a, j)

----------------------------------------------------------------------------
(* Batches: process_batch_audio and the batch endpoints *)

\* the backend's record of a batch task: submitted is the 'submitted' count of
\* its PROGRESS meta, jobs the job_ids of its result
NoBRec == [status |-> "NONE", submitted |-> 0, jobs |-> <<>>]

BRec(s, i, js) == [status |-> s, submitted |-> i, jobs |-> js]

BatchMsg(b, n, r, c) == [id |-> b, files |-> n, retries |-> r, countdown |-> c]

BatchRun(b, n, r, c, i, js, p) ==
    [id |-> b, files |-> n, retries |-> r, countdown |-> c, i |-> i, jobs |-> js, pc |-> p]

\* if self.request.retries < self.max_retries (process_batch_audio, max_retries=2)
BatchMayRetry(r) == r < batch_max_retries

\* the file lists a client uploads: each file is an audio file or not; the
\* short lists, and two lists one file over the cap
FileLists ==
    UNION {[1..n -> BOOLEAN] : n \in 1..MaxFiles}
        \cup {[k \in 1..(BatchCap + 1) |-> TRUE], [k \in 1..(BatchCap + 1) |-> k # 1]}

\* a cap test that lets one file too many through
OverCapOffByOne(n) == n > BatchCap + 1

\* if len(audio_files) > 50
OverCap(n) == n > BatchCap

\* if not audio_file.content_type.startswith('audio/'), for some file of the list
BadMember(files) == \E k \in 1..Len(files) : ~files[k]

\* the answer of submit_batch_job before it waits for the batch task: code is
\* the HTTP status of a refusal, 0 when the batch task was queued
NoSubmit == [files |-> 0, bad |-> FALSE, code |-> 0, queued |-> FALSE]

SubmitAnswer(files, c, q) == [files |-> Len(files), bad |-> BadMember(files), code |-> c, queued |-> q]

\* round((completed_jobs / total_jobs) * 100, 1), in tenths of a percent
ProgressPercentage(completed, total) == (completed * 2000 + total) \div (2 * total)

\* an entry that takes every job with a stored record for a finished one
MemberStatusStarted(j) ==
    [job_id |-> j,
     status |-> AsyncStatus(store[j]),
     ready |-> store[j] # NoRecord,
     error |-> AsyncReady(store[j]) /\ ~AsyncSuccessful(store[j])]

\* one entry of job_statuses
MemberStatus(j) ==
    [job_id |-> j,
     status |-> AsyncStatus(store[j]),
     ready |-> AsyncReady(store[j]),
     error |-> AsyncReady(store[j]) /\ ~AsyncSuccessful(store[j])]

NoBView == [batch |-> 0, found |-> FALSE, kind |-> "none", status |-> "NONE", ready |-> FALSE,
            total_jobs |-> 0, completed_jobs |-> 0, failed_jobs |-> 0,
            progress_percentage |-> 0, jobs |-> <<>>]

\* what get_batch_status returns for batch id b
BatchView(b, rec) ==
    IF ~AsyncReady(rec)
    THEN [NoBView EXCEPT !.batch = b, !.found = rec # NoBRec, !.kind = "not_ready",
                         !.status = AsyncStatus(rec)]
    ELSE IF AsyncFailed(rec)
    THEN [NoBView EXCEPT !.batch = b, !.found = TRUE, !.kind = "failed", !.status = "FAILED"]
    ELSE LET job_statuses == [k \in 1..Len(rec.jobs) |-> MemberStatus(rec.jobs[k])]
             total == Len(job_statuses)
             completed == Cardinality({k \in 1..total : job_statuses[k].ready})
             failed == Cardinality({k \in 1..total : job_statuses[k].error})
         IN  [batch |-> b, found |-> TRUE, kind |-> "summary",
              status |-> IF completed = total THEN "COMPLETED" ELSE "IN_PROGRESS",
              ready |-> TRUE,
              total_jobs |-> total, completed_jobs |-> completed, failed_jobs |-> failed,
              progress_percentage |-> ProgressPercentage(completed, total),
              jobs |-> job_statuses]

----------------------------------------------------------------------------
(* Stage 4 of process_audio_async: the segment loop and the reading metrics. *)
(* Times are counted in tenths of a second; the values used are whole and    *)
(* half seconds, which Python's floats hold and subtract exactly.  The       *)
(* quotients are kept as exact fractions.                                    *)

\* the gap above which two segments are a pause apart: 0.5 s
PauseGap == 5

\* expected_wpm when the options carry none
default_expected_wpm == 100

SegmentTimes == {0, 20, 25, 30, 40, 600}
SegmentWords == {0, 5, 100}
ExpectedWpm == {-100, 0, default_expected_wpm}

\* a segment of result["segments"]; words is len(segment["text"].split())
Segments ==
    {g \in [start : SegmentTimes, end : SegmentTimes, words : SegmentWords] : g.start <= g.end}

SegmentLists == UNION {[1..n -> Segments] : n \in 0..MaxSegments}

Abs(n) == IF n < 0 THEN -n ELSE n

RECURSIVE GCD(_, _)
GCD(a, b) == IF b = 0 THEN a ELSE GCD(b, a % b)

\* a number n/d in lowest terms with d > 0; d = 0 stands for the
\* ZeroDivisionError a division raised
Q(n, d) ==
    IF d = 0 THEN [num |-> 0, den |-> 0]
    ELSE LET g == GCD(Abs(n), Abs(d))
             sg == IF d < 0 THEN -1 ELSE 1
         IN  [num |-> sg * (n \div g), den |-> sg * (d \div g)]

Whole(n) == Q(n, 1)
Raised(x) == x.den = 0
Div(x, y) == IF Raised(x) \/ Raised(y) THEN Q(0, 0) ELSE Q(x.num * y.den, x.den * y.num)
Mul(x, y) == IF Raised(x) \/ Raised(y) THEN Q(0, 0) ELSE Q(x.num * y.num, x.den * y.den)
Add(x, y) == IF Raised(x) \/ Raised(y) THEN Q(0, 0) ELSE Q(x.num * y.den + y.num * x.den, x.den * y.den)
Sub(x, y) == IF Raised(x) \/ Raised(y) THEN Q(0, 0) ELSE Q(x.num * y.den - y.num * x.den, x.den * y.den)
Less(x, y) == x.num * y.den < y.num * x.den
Min(x, y) == IF Raised(x) \/ Raised(y) THEN Q(0, 0) ELSE IF Less(y, x) THEN y ELSE x
Max(x, y) == IF Raised(x) \/ Raised(y) THEN Q(0, 0) ELSE IF Less(x, y) THEN y ELSE x

\* seconds of a time counted in tenths
Seconds(t) == Q(t, 10)

\* a threshold that a gap of exactly 0.5 s reaches
IsPauseAtLeast(start, prev_end) == start - prev_end >= PauseGap

\* segment["start"] - prev_end > 0.5
IsPause(start, prev_end) == start - prev_end > PauseGap

\* the loop over result["segments"], from segment i on
RECURSIVE SegmentLoop(_, _, _)
SegmentLoop(segs, i, acc) ==
    IF i > Len(segs) THEN acc
    ELSE SegmentLoop(segs, i + 1,
            [total_words |-> acc.total_words + segs[i].words,
             total_duration |-> IF segs[i].end > acc.total_duration
                                THEN segs[i].end ELSE acc.total_duration,
             pause_count |-> IF i > 1 /\ IsPause(segs[i].start, segs[i - 1].end)
                             THEN acc.pause_count + 1 ELSE acc.pause_count])

\* a guard that lets expected_wpm = 0 through to the division
WpmGuardSlack(expected_wpm) == expected_wpm >= 0

\* the condition under which wpm_score divides by expected_wpm
WpmGuard(expected_wpm) == expected_wpm > 0

NoMetrics == [computed |-> FALSE]

\* the reading metrics of a transcription result
ReadingMetrics(segs, opts) ==
    LET loop == SegmentLoop(segs, 1, [total_words |-> 0, total_duration |-> 0, pause_count |-> 0])
        total_words == loop.total_words
        total_duration == loop.total_duration
        pause_count == loop.pause_count
        words_per_minute ==
            IF total_duration > 0
            THEN Mul(Div(Whole(total_words), Seconds(total_duration)), Whole(60))
            ELSE Whole(0)
        expected_wpm == opts.expected_wpm
        wpm_score ==
            IF WpmGuard(expected_wpm)
            THEN Min(Div(words_per_minute, Whole(expected_wpm)), Whole(1))
            ELSE Whole(0)
        pause_penalty ==
            IF total_words > 0
            THEN Max(Whole(0), Sub(Whole(1), Mul(Div(Whole(pause_count), Whole(total_words)), Whole(10))))
            ELSE Whole(0)
        fluency_score == Mul(Add(Mul(wpm_score, Q(7, 10)), Mul(pause_penalty, Q(3, 10))), Whole(100))
    IN  [computed |-> TRUE,
         total_words |-> total_words,
         total_duration |-> total_duration,
         pause_count |-> pause_count,
         words_per_minute |-> words_per_minute,
         wpm_score |-> wpm_score,
         pause_penalty |-> pause_penalty,
         fluency_score |-> fluency_score]


(* get_whisper_model and the module-level _model_cache *)

\* options.get('model', 'base') of the executions
ModelNames == {"base", "small"}

\* the executions of one worker process that call get_whisper_model
Callers == 1..NCallers

NoCall == [pc |-> "idle", model_name |-> "none", model |-> 0]

\* a worker process with no execution in stage 4
IdleLocals ==
    /\ result = <<>>
    /\ options = [expected_wpm |-> default_expected_wpm]
    /\ metrics = NoMetrics
    /\ model_cache = [n \in ModelNames |-> 0]
    /\ callers = [c \in Callers |-> NoCall]
    /\ loads = [n \in ModelNames |-> 0]

----------------------------------------------------------------------------
Init ==
    /\ store = [j \in JobIds |-> NoRecord]
    /\ queue = {}
    /\ active = {}
    /\ nextId = 1
    /\ revokeInFlight = {}
    /\ revoked = {}
    /\ retries = [j \in JobIds |-> 0]
    /\ attempts = [j \in JobIds |-> 0]
    /\ failures = [j \in JobIds |-> 0]
    /\ cancelledRunning = {}
    /\ seen = NoView
    /\ lostCount = 0
    /\ view = NoView
    /\ temp = {}
    /\ bstore = [b \in BatchIds |-> NoBRec]
    /\ bqueue = {}
    /\ bactive = {}
    /\ nextBatch = 1
    /\ bresp = [b \in BatchIds |-> "none"]
    /\ bview = NoBView
    /\ subresp = NoSubmit
    /\ bhist = [b \in BatchIds |-> [files |-> 0, made |-> {}, answer |-> <<>>, last |-> NoBView]]
    /\ IdleLocals

\* the job records that process_audio_async and the workers store
JobRecords ==
    {NoRecord, Rec("RETRY", 0, "exc", 0), Rec("SUCCESS", 0, "payload", 0),
     Rec("FAILURE", 0, "exc", 0), Rec("REVOKED", 0, "revoked", 0)}
        \cup {Rec("PROGRESS", StagePercent(pc), "meta", 1) : pc \in {"start", "p70"}}

\* the job_ids lists a batch record can hold: distinct member ids, one per file
MemberLists ==
    UNION {{js \in [1..n -> {j \in JobIds : j <= MaxFiles}] :
               \A k, l \in 1..n : k # l => js[k] # js[l]} : n \in 1..MaxFiles}

\* the records that process_batch_audio and the workers store
BatchRecords ==
    {NoBRec, BRec("PROGRESS", 0, <<>>), BRec("RETRY", 0, <<>>), BRec("FAILURE", 0, <<>>)}
        \cup {BRec("SUCCESS", 0, js) : js \in MemberLists}

\* get_batch_status as a function of what the backend holds: any batch record
\* over any records of its member jobs, everything else idle
ViewInit ==
    /\ store \in [JobIds -> JobRecords]
    /\ \A j \in JobIds : j > MaxFiles => store[j] = NoRecord
    /\ bstore \in [BatchIds -> BatchRecords]
    /\ queue = {}
    /\ active = {}
    /\ nextId = 1
    /\ revokeInFlight = {}
    /\ revoked = {}
    /\ retries = [j \in JobIds |-> 0]
    /\ attempts = [j \in JobIds |-> 0]
    /\ failures = [j \in JobIds |-> 0]
    /\ cancelledRunning = {}
    /\ seen = NoView
    /\ lostCount = 0
    /\ view = NoView
    /\ temp = {}
    /\ bqueue = {}
    /\ bactive = {}
    /\ nextBatch = 1
    /\ bresp = [b \in BatchIds |-> "none"]
    /\ bview = NoBView
    /\ subresp = NoSubmit
    /\ bhist = [b \in BatchIds |-> [files |-> 0, made |-> {}, answer |-> <<>>, last |-> NoBView]]
    /\ IdleLocals

\* GET /queue/batch-status/{batch_id} by a client that keeps the latest summary
GetBatchStatusTracked(b) ==
    /\ bview' = BatchView(b, bstore[b])
    /\ bhist' = [bhist EXCEPT ![b].last =
                    IF BatchView(b, bstore[b]).kind = "summary" THEN BatchView(b, bstore[b]) ELSE @]
    /\ subresp' = NoSubmit
    /\ UNCHANGED localVars
    /\ UNCHANGED <<bstore, bqueue, bactive, nextBatch, bresp, jobVars>>

\* POST /queue/submit: the content-type check, then process_audio_async.delay()
SubmitJob(audio) ==
    /\ nextId <= NJobs
    /\ IF audio
       THEN /\ queue' = queue \cup {Msg(nextId, 0, 0)}
            /\ nextId' = nextId + 1
       ELSE UNCHANGED <<queue, nextId>>
    /\ UNCHANGED <<store, active, revokeInFlight, revoked,
                   retries, attempts, failures, lostCount, cancelledRunning, seen>>
    /\ view' = NoView
    /\ UNCHANGED temp
    /\ UNCHANGED batchVars
    /\ UNCHANGED localVars

\* a worker takes a message; a task whose id is in its revoked set is
\* discarded and marked REVOKED, otherwise the task function is entered
Pickup(m) ==
    /\ m \in queue
    /\ queue' = queue \ {m}
    /\ IF m.id \in revoked
       THEN /\ store' = [store EXCEPT ![m.id] = Rec("REVOKED", 0, "revoked", 0)]
            /\ UNCHANGED <<active, attempts>>
       ELSE /\ active' = active \cup {Running(m.id, m.retries, m.countdown, "start")}
            /\ attempts' = [attempts EXCEPT ![m.id] = @ + 1]
            /\ UNCHANGED store
    /\ UNCHANGED <<nextId, revokeInFlight, revoked,
                   retries, failures, lostCount, cancelledRunning, seen>>
    /\ view' = NoView
    /\ UNCHANGED temp
    /\ UNCHANGED batchVars
    /\ UNCHANGED localVars

\* self.update_state(state='PROGRESS', meta={..., 'progress': n}) on entering a stage
Advance(a) ==
    /\ a \in active
    /\ a.pc \in {"start", "p10", "p20", "p30", "p70"}
    /\ store' = [store EXCEPT ![a.id] = Rec("PROGRESS", StagePercent(a.pc), "meta", attempts[a.id])]
    /\ active' = (active \ {a}) \cup {[a EXCEPT !.pc = StageNext(a.pc)]}
    /\ UNCHANGED <<queue, nextId, revokeInFlight, revoked,
                   retries, attempts, failures, lostCount, cancelledRunning, seen>>
    /\ view' = NoView
    /\ UNCHANGED temp
    /\ UNCHANGED batchVars
    /\ UNCHANGED localVars

\* return final_result: the worker stores SUCCESS with the result
Succeed(a) ==
    /\ a \in active
    /\ a.pc = "p90"
    /\ store' = [store EXCEPT ![a.id] = Rec("SUCCESS", 0, "payload", 0)]
    /\ active' = (active \ {a}) \cup {[a EXCEPT !.pc = "done"]}
    /\ UNCHANGED <<queue, nextId, revokeInFlight, revoked,
                   retries, attempts, failures, lostCount, cancelledRunning, seen>>
    /\ view' = NoView
    /\ UNCHANGED temp
    /\ UNCHANGED batchVars
    /\ UNCHANGED localVars

\* except Exception: retry with a countdown while retries < max_retries,
\* otherwise update_state(state='FAILURE', ...) and raise exc, which leaves
\* FAILURE with the exception as the stored result
Fail(a) ==
    /\ a \in active
    /\ a.pc \in Stages
    /\ failures' = [failures EXCEPT ![a.id] = @ + 1]
    /\ IF MayRetry(a.retries)
       THEN /\ queue' = queue \cup {Msg(a.id, a.retries + 1, RetryCountdown(a.retries))}
            /\ retries' = [retries EXCEPT ![a.id] = a.retries + 1]
            /\ store' = [store EXCEPT ![a.id] = Rec("RETRY", 0, "exc", 0)]
            /\ active' = active \ {a}
       ELSE /\ store' = [store EXCEPT ![a.id] = Rec("FAILURE", 0, "exc", 0)]
            /\ active' = (active \ {a}) \cup {[a EXCEPT !.pc = "done"]}
            /\ UNCHANGED <<queue, retries>>
    /\ UNCHANGED <<nextId, revokeInFlight, revoked, attempts, lostCount, cancelledRunning, seen>>
    /\ view' = NoView
    /\ UNCHANGED temp
    /\ UNCHANGED batchVars
    /\ UNCHANGED localVars

\* task_acks_late: the message is acknowledged after the task has finished
Ack(a) ==
    /\ a \in active
    /\ a.pc = "done"
    /\ active' = active \ {a}
    /\ UNCHANGED <<store, queue, nextId, revokeInFlight, revoked,
                   retries, attempts, failures, lostCount, cancelledRunning, seen>>
    /\ view' = NoView
    /\ UNCHANGED temp
    /\ UNCHANGED batchVars
    /\ UNCHANGED localVars

\* task_reject_on_worker_lost: the unacknowledged message of a lost worker
\* process goes back to the queue as it was
WorkerLost(a) ==
    /\ a \in active
    /\ lostCount < MaxLost
    /\ lostCount' = lostCount + 1
    /\ queue' = queue \cup {Msg(a.id, a.retries, a.countdown)}
    /\ active' = active \ {a}
    /\ UNCHANGED <<store, nextId, revokeInFlight, revoked,
                   retries, attempts, failures, cancelledRunning, seen>>
    /\ view' = NoView
    /\ UNCHANGED temp
    /\ UNCHANGED batchVars
    /\ UNCHANGED localVars

\* DELETE /queue/cancel/{job_id}: celery_app.control.revoke(job_id, terminate=True)
CancelJob(j) ==
    /\ j < nextId
    /\ revokeInFlight' = revokeInFlight \cup {j}
    /\ UNCHANGED <<store, queue, active, nextId, revoked, retries,
                   attempts, failures, lostCount, cancelledRunning, seen>>
    /\ view' = NoView
    /\ UNCHANGED temp
    /\ UNCHANGED batchVars
    /\ UNCHANGED localVars

\* cancel_job, with the history of the calls made while the job was mid-execution
CancelJobTracked(j) ==
    /\ j < nextId
    /\ revokeInFlight' = revokeInFlight \cup {j}
    /\ cancelledRunning' = IF MidExecution(j) THEN cancelledRunning \cup {j} ELSE cancelledRunning
    /\ UNCHANGED <<store, queue, active, nextId, revoked, retries,
                   attempts, failures, lostCount, seen>>
    /\ view' = NoView
    /\ UNCHANGED temp
    /\ UNCHANGED batchVars
    /\ UNCHANGED localVars

\* the workers handle the revoke broadcast: the id joins the revoked set and
\* a request of that id whose task function is executing is terminated and
\* marked REVOKED
RevokeDeliver(j) ==
    /\ j \in revokeInFlight
    /\ revokeInFlight' = revokeInFlight \ {j}
    /\ revoked' = revoked \cup {j}
    /\ IF \E a \in active : Executing(a, j)
       THEN /\ store' = [store EXCEPT ![j] = Rec("REVOKED", 0, "revoked", 0)]
            /\ active' = {a \in active : ~Executing(a, j)}
       ELSE UNCHANGED <<store, active>>
    /\ UNCHANGED <<queue, nextId, retries, attempts, failures, lostCount, cancelledRunning, seen>>
    /\ view' = NoView
    /\ UNCHANGED temp
    /\ UNCHANGED batchVars
    /\ UNCHANGED localVars

\* result_expires: the backend drops a finished result after its TTL
Expire(j) ==
    /\ store[j].status \in READY_STATES
    /\ store' = [store EXCEPT ![j] = NoRecord]
    /\ UNCHANGED <<queue, active, nextId, revokeInFlight, revoked,
                   retries, attempts, failures, lostCount, cancelledRunning, seen>>
    /\ view' = NoView
    /\ UNCHANGED temp
    /\ UNCHANGED batchVars
    /\ UNCHANGED localVars

\* Advance with the scratch file: it is written (NamedTemporaryFile(delete=False))
\* between the PROGRESS 20 and the PROGRESS 30 reports
AdvanceScratch(a) ==
    /\ a \in active
    /\ a.pc \in {"start", "p10", "p20", "p30", "p70"}
    /\ store' = [store EXCEPT ![a.id] = Rec("PROGRESS", StagePercent(a.pc), "meta", attempts[a.id])]
    /\ active' = (active \ {a}) \cup {[a EXCEPT !.pc = StageNext(a.pc)]}
    /\ UNCHANGED <<queue, nextId, revokeInFlight, revoked,
                   retries, attempts, failures, lostCount, cancelledRunning, seen>>
    /\ view' = NoView
    /\ temp' = IF a.pc = "p20" THEN temp \cup {<<a.id, attempts[a.id]>>} ELSE temp
    /\ UNCHANGED batchVars
    /\ UNCHANGED localVars

\* Succeed with the scratch file: the finally block unlinks it on return
SucceedScratch(a) ==
    /\ a \in active
    /\ a.pc = "p90"
    /\ store' = [store EXCEPT ![a.id] = Rec("SUCCESS", 0, "payload", 0)]
    /\ active' = (active \ {a}) \cup {[a EXCEPT !.pc = "done"]}
    /\ UNCHANGED <<queue, nextId, revokeInFlight, revoked,
                   retries, attempts, failures, lostCount, cancelledRunning, seen>>
    /\ view' = NoView
    /\ temp' = temp \ {<<a.id, attempts[a.id]>>}
    /\ UNCHANGED batchVars
    /\ UNCHANGED localVars

\* Fail with the scratch file: the finally block unlinks it (if it was made)
\* before except Exception runs
FailScratch(a) ==
    /\ a \in active
    /\ a.pc \in Stages
    /\ failures' = [failures EXCEPT ![a.id] = @ + 1]
    /\ IF MayRetry(a.retries)
       THEN /\ queue' = queue \cup {Msg(a.id, a.retries + 1, RetryCountdown(a.retries))}
            /\ retries' = [retries EXCEPT ![a.id] = a.retries + 1]
            /\ store' = [store EXCEPT ![a.id] = Rec("RETRY", 0, "exc", 0)]
            /\ active' = active \ {a}
       ELSE /\ store' = [store EXCEPT ![a.id] = Rec("FAILURE", 0, "exc", 0)]
            /\ active' = (active \ {a}) \cup {[a EXCEPT !.pc = "done"]}
            /\ UNCHANGED <<queue, retries>>
    /\ UNCHANGED <<nextId, revokeInFlight, revoked, attempts, lostCount, cancelledRunning, seen>>
    /\ view' = NoView
    /\ temp' = temp \ {<<a.id, attempts[a.id]>>}
    /\ UNCHANGED batchVars
    /\ UNCHANGED localVars

\* the Redis broker's visibility timeout: a message that has been delivered
\* and is still unacknowledged when the timeout runs out is restored to the
\* queue, while the worker that holds it goes on executing the task
\* (task_acks_late acknowledges only after the task has finished, and no time
\* limit ends a long execution)
Redeliver(a) ==
    /\ a \in active
    /\ \A b \in active : b.id = a.id => b = a
    /\ \A m \in queue : m.id # a.id
    /\ lostCount < MaxLost
    /\ lostCount' = lostCount + 1
    /\ queue' = queue \cup {Msg(a.id, a.retries, a.countdown)}
    /\ UNCHANGED <<store, active, nextId, revokeInFlight, revoked,
                   retries, attempts, failures, cancelledRunning, seen>>
    /\ view' = NoView
    /\ UNCHANGED temp
    /\ UNCHANGED batchVars
    /\ UNCHANGED localVars

\* model = get_whisper_model(model_name): the call is entered
GetWhisperModel(c, n) ==
    /\ callers[c].pc \in {"idle", "returned", "raised"}
    /\ callers' = [callers EXCEPT ![c] = [pc |-> "test", model_name |-> n, model |-> 0]]
    /\ UNCHANGED <<model_cache, loads>>
    /\ UNCHANGED <<result, options, metrics>>
    /\ UNCHANGED <<jobVars, batchVars>>

\* if model_name not in _model_cache
CacheTest(c) ==
    /\ callers[c].pc = "test"
    /\ callers' = [callers EXCEPT ![c].pc =
                      IF model_cache[callers[c].model_name] = 0 THEN "load" ELSE "return"]
    /\ UNCHANGED <<model_cache, loads>>
    /\ UNCHANGED <<result, options, metrics>>
    /\ UNCHANGED <<jobVars, batchVars>>

\* _model_cache[model_name] = whisper.load_model(model_name, device=device),
\* or the exception of a load that fails, logged and raised again
LoadModel(c, ok) ==
    /\ callers[c].pc = "load"
    /\ IF ok
       THEN /\ loads[callers[c].model_name] < MaxLoads
            /\ model_cache' = [model_cache EXCEPT ![callers[c].model_name] =
                                  loads[callers[c].model_name] + 1]
            /\ loads' = [loads EXCEPT ![callers[c].model_name] = @ + 1]
            /\ callers' = [callers EXCEPT ![c].pc = "return"]
       ELSE /\ callers' = [callers EXCEPT ![c].pc = "raised"]
            /\ UNCHANGED <<model_cache, loads>>
    /\ UNCHANGED <<result, options, metrics>>
    /\ UNCHANGED <<jobVars, batchVars>>

\* return _model_cache[model_name]
ReturnModel(c) ==
    /\ callers[c].pc = "return"
    /\ callers' = [callers EXCEPT ![c].pc = "returned",
                                  ![c].model = model_cache[callers[c].model_name]]
    /\ UNCHANGED <<model_cache, loads>>
    /\ UNCHANGED <<result, options, metrics>>
    /\ UNCHANGED <<jobVars, batchVars>>

\* GET /queue/status/{job_id}
Poll(j) ==
    /\ view' = JobView(j, store[j])
    /\ UNCHANGED temp
    /\ UNCHANGED batchVars
    /\ UNCHANGED localVars
    /\ UNCHANGED <<store, queue, active, nextId, revokeInFlight, revoked,
                   retries, attempts, failures, lostCount, cancelledRunning, seen>>

\* GET /queue/status/{job_id} by a client that follows one job and keeps the
\* latest PROGRESS response
ReaderPoll(j) ==
    /\ seen.job \in {0, j}
    /\ seen' = IF JobView(j, store[j]).status = "PROGRESS"
               THEN JobView(j, store[j])
               ELSE seen
    /\ UNCHANGED <<store, queue, active, nextId, revokeInFlight, revoked,
                   retries, attempts, failures, lostCount, cancelledRunning>>
    /\ view' = NoView
    /\ UNCHANGED temp
    /\ UNCHANGED batchVars
    /\ UNCHANGED localVars

\* GET /queue/status/{job_id} by a client that keeps the first response that
\* showed the job terminal, to compare the later ones with it
TerminalPoll(j) ==
    /\ view' = JobView(j, store[j])
    /\ seen' = IF seen.job = 0 /\ AsyncReady(store[j]) THEN JobView(j, store[j]) ELSE seen
    /\ UNCHANGED <<store, queue, active, nextId, revokeInFlight, revoked,
                   retries, attempts, failures, lostCount, cancelledRunning>>
    /\ UNCHANGED temp
    /\ UNCHANGED batchVars
    /\ UNCHANGED localVars

\* POST /queue/submit-batch: the size cap and the content-type checks, then
\* process_batch_audio.delay() and batch_job.get(timeout=10)
SubmitBatch(files) ==
    /\ nextBatch <= NBatches
    /\ IF OverCap(Len(files))
       THEN \* raise HTTPException(status_code=400) before the try block
            /\ subresp' = SubmitAnswer(files, 400, FALSE)
            /\ UNCHANGED localVars
            /\ UNCHANGED <<bqueue, nextBatch, bresp, bhist>>
       ELSE IF BadMember(files)
       THEN \* HTTPException(status_code=400) raised inside the try block is caught
            \* by except Exception and answered as status_code=500
            /\ subresp' = SubmitAnswer(files, 500, FALSE)
            /\ UNCHANGED localVars
            /\ UNCHANGED <<bqueue, nextBatch, bresp, bhist>>
       ELSE /\ bqueue' = bqueue \cup {BatchMsg(nextBatch, Len(files), 0, 0)}
            /\ bresp' = [bresp EXCEPT ![nextBatch] = "waiting"]
            /\ nextBatch' = nextBatch + 1
            /\ subresp' = SubmitAnswer(files, 0, TRUE)
            /\ UNCHANGED localVars
            /\ bhist' = [bhist EXCEPT ![nextBatch].files = Len(files)]
    /\ UNCHANGED <<bstore, bactive, jobVars>>
    /\ bview' = NoBView

\* batch_job.get(timeout=10) returns the result of the batch task or raises
\* its exception
SubmitBatchReturn(b) ==
    /\ bresp[b] = "waiting"
    /\ AsyncReady(bstore[b])
    /\ bresp' = [bresp EXCEPT ![b] = IF AsyncSuccessful(bstore[b]) THEN "ok" ELSE "error"]
    /\ UNCHANGED <<bstore, bqueue, bactive, nextBatch, jobVars>>
    /\ bview' = NoBView
    /\ subresp' = NoSubmit
    /\ UNCHANGED localVars
    /\ bhist' = [bhist EXCEPT ![b].answer = IF AsyncSuccessful(bstore[b]) THEN bstore[b].jobs ELSE @]

\* batch_job.get(timeout=10) times out: the endpoint answers 500
SubmitBatchTimeout(b) ==
    /\ bresp[b] = "waiting"
    /\ ~AsyncReady(bstore[b])
    /\ bresp' = [bresp EXCEPT ![b] = "error"]
    /\ UNCHANGED <<bstore, bqueue, bactive, nextBatch, jobVars>>
    /\ bview' = NoBView
    /\ subresp' = NoSubmit
    /\ UNCHANGED localVars
    /\ UNCHANGED bhist

\* a worker takes a process_batch_audio message and enters the task
BatchPickup(m) ==
    /\ m \in bqueue
    /\ bqueue' = bqueue \ {m}
    /\ bactive' = bactive \cup {BatchRun(m.id, m.files, m.retries, m.countdown, 0, <<>>, "loop")}
    /\ UNCHANGED <<bstore, nextBatch, bresp, jobVars>>
    /\ bview' = NoBView
    /\ subresp' = NoSubmit
    /\ UNCHANGED localVars
    /\ UNCHANGED bhist

\* one turn of the loop: update_state(PROGRESS, submitted=i), then
\* process_audio_async.delay() for file i and job_ids.append()
BatchFanOut(x) ==
    /\ x \in bactive
    /\ x.pc = "loop"
    /\ x.i < x.files
    /\ nextId <= NJobs + NMembers
    /\ bstore' = [bstore EXCEPT ![x.id] = BRec("PROGRESS", x.i, <<>>)]
    /\ queue' = queue \cup {Msg(nextId, 0, 0)}
    /\ nextId' = nextId + 1
    /\ bactive' = (bactive \ {x}) \cup {[x EXCEPT !.i = x.i + 1, !.jobs = Append(x.jobs, nextId)]}
    /\ UNCHANGED <<bqueue, nextBatch, bresp, store, active, revokeInFlight, revoked,
                   retries, attempts, failures, lostCount, cancelledRunning, seen>>
    /\ view' = NoView
    /\ UNCHANGED temp
    /\ bview' = NoBView
    /\ subresp' = NoSubmit
    /\ UNCHANGED localVars
    /\ bhist' = [bhist EXCEPT ![x.id].made = @ \cup {nextId}]

\* return result: the worker stores SUCCESS with the job_ids
BatchReturn(x) ==
    /\ x \in bactive
    /\ x.pc = "loop"
    /\ x.i = x.files
    /\ bstore' = [bstore EXCEPT ![x.id] = BRec("SUCCESS", 0, x.jobs)]
    /\ bactive' = (bactive \ {x}) \cup {[x EXCEPT !.pc = "done"]}
    /\ UNCHANGED <<bqueue, nextBatch, bresp, jobVars>>
    /\ bview' = NoBView
    /\ subresp' = NoSubmit
    /\ UNCHANGED localVars
    /\ UNCHANGED bhist

\* task_acks_late: the batch message is acknowledged after the task returned
BatchAck(x) ==
    /\ x \in bactive
    /\ x.pc = "done"
    /\ bactive' = bactive \ {x}
    /\ UNCHANGED <<bstore, bqueue, nextBatch, bresp, jobVars>>
    /\ bview' = NoBView
    /\ subresp' = NoSubmit
    /\ UNCHANGED localVars
    /\ UNCHANGED bhist

\* task_reject_on_worker_lost: the worker running the batch task dies before
\* the acknowledgement and the message goes back to the queue as it was
BatchWorkerLost(x) ==
    /\ x \in bactive
    /\ lostCount < MaxLost
    /\ lostCount' = lostCount + 1
    /\ bactive' = bactive \ {x}
    /\ bqueue' = bqueue \cup {BatchMsg(x.id, x.files, x.retries, x.countdown)}
    /\ UNCHANGED <<bstore, nextBatch, bresp, store, queue, active, nextId, revokeInFlight,
                   revoked, retries, attempts, failures, cancelledRunning, seen>>
    /\ view' = NoView
    /\ UNCHANGED temp
    /\ bview' = NoBView
    /\ subresp' = NoSubmit
    /\ UNCHANGED localVars
    /\ UNCHANGED bhist

\* except Exception in process_batch_audio: retry after 120 s while
\* retries < max_retries, otherwise raise exc (FAILURE)
BatchFail(x) ==
    /\ x \in bactive
    /\ x.pc = "loop"
    /\ IF BatchMayRetry(x.retries)
       THEN /\ bqueue' = bqueue \cup {BatchMsg(x.id, x.files, x.retries + 1, batch_retry_delay)}
            /\ bstore' = [bstore EXCEPT ![x.id] = BRec("RETRY", 0, <<>>)]
       ELSE /\ bstore' = [bstore EXCEPT ![x.id] = BRec("FAILURE", 0, <<>>)]
            /\ UNCHANGED bqueue
    /\ bactive' = bactive \ {x}
    /\ UNCHANGED <<nextBatch, bresp, jobVars>>
    /\ bview' = NoBView
    /\ subresp' = NoSubmit
    /\ UNCHANGED localVars
    /\ UNCHANGED bhist

\* GET /queue/batch-status/{batch_id}
GetBatchStatus(b) ==
    /\ bview' = BatchView(b, bstore[b])
    /\ subresp' = NoSubmit
    /\ UNCHANGED localVars
    /\ UNCHANGED bhist
    /\ UNCHANGED <<bstore, bqueue, bactive, nextBatch, bresp, jobVars>>

Next ==
    \/ \E audio \in BOOLEAN : SubmitJob(audio)
    \/ \E m \in queue : Pickup(m)
    \/ \E a \in active : Advance(a)
    \/ \E a \in active : Succeed(a)
    \/ \E a \in active : Fail(a)
    \/ \E a \in active : Ack(a)
    \/ \E a \in active : WorkerLost(a)
    \/ \E j \in JobIds : RevokeDeliver(j)
    \/ \E j \in JobIds : Expire(j)
    \/ \E j \in JobIds : CancelJob(j)

Spec == Init /\ [][Next]_vars

\* the same system, recording the cancel requests made mid-execution
CancelNext ==
    \/ \E audio \in BOOLEAN : SubmitJob(audio)
    \/ \E m \in queue : Pickup(m)
    \/ \E a \in active : Advance(a)
    \/ \E a \in active : Succeed(a)
    \/ \E a \in active : Fail(a)
    \/ \E a \in active : Ack(a)
    \/ \E a \in active : WorkerLost(a)
    \/ \E j \in JobIds : RevokeDeliver(j)
    \/ \E j \in JobIds : Expire(j)
    \/ \E j \in JobIds : CancelJobTracked(j)

CancelSpec == Init /\ [][CancelNext]_vars

\* the same system with a client polling the status endpoint
PollNext ==
    \/ \E audio \in BOOLEAN : SubmitJob(audio)
    \/ \E m \in queue : Pickup(m)
    \/ \E a \in active : Advance(a)
    \/ \E a \in active : Succeed(a)
    \/ \E a \in active : Fail(a)
    \/ \E a \in active : Ack(a)
    \/ \E a \in active : WorkerLost(a)
    \/ \E j \in JobIds : RevokeDeliver(j)
    \/ \E j \in JobIds : Expire(j)
    \/ \E j \in JobIds : CancelJob(j)
    \/ \E j \in JobIds : Poll(j)

PollSpec == Init /\ [][PollNext]_vars

\* the same system with a client that compares successive PROGRESS responses;
\* jobs are interchangeable, so the client follows the first one submitted
ReaderNext ==
    \/ \E audio \in BOOLEAN : SubmitJob(audio)
    \/ \E m \in queue : Pickup(m)
    \/ \E a \in active : Advance(a)
    \/ \E a \in active : Succeed(a)
    \/ \E a \in active : Fail(a)
    \/ \E a \in active : Ack(a)
    \/ \E a \in active : WorkerLost(a)
    \/ \E j \in JobIds : RevokeDeliver(j)
    \/ \E j \in JobIds : Expire(j)
    \/ \E j \in JobIds : CancelJob(j)
    \/ ReaderPoll(1)

ReaderSpec == Init /\ [][ReaderNext]_vars

\* the same system inside the result_expires window (no record expires), with
\* a client that polls the first job again after it has seen it terminal
IdemNext ==
    \/ \E audio \in BOOLEAN : SubmitJob(audio)
    \/ \E m \in queue : Pickup(m)
    \/ \E a \in active : Advance(a)
    \/ \E a \in active : Succeed(a)
    \/ \E a \in active : Fail(a)
    \/ \E a \in active : Ack(a)
    \/ \E a \in active : WorkerLost(a)
    \/ \E j \in JobIds : RevokeDeliver(j)
    \/ \E j \in JobIds : CancelJob(j)
    \/ TerminalPoll(1)

IdemSpec == Init /\ [][IdemNext]_vars

\* the batch endpoints and the process_batch_audio task, before any member job runs
SubmitNext ==
    \/ \E files \in FileLists : SubmitBatch(files)
    \/ \E b \in BatchIds : SubmitBatchReturn(b)
    \/ \E b \in BatchIds : SubmitBatchTimeout(b)
    \/ \E m \in bqueue : BatchPickup(m)
    \/ \E x \in bactive : BatchFanOut(x)
    \/ \E x \in bactive : BatchReturn(x)
    \/ \E x \in bactive : BatchFail(x)
    \/ \E x \in bactive : BatchAck(x)
    \/ \E b \in BatchIds : GetBatchStatus(b)

SubmitSpec == Init /\ [][SubmitNext]_vars

\* a batch fanned out without failure, inside the result_expires window, its
\* member jobs executed by workers that can be lost, and a client that polls
\* the batch and keeps the latest summary
BatchReaderNext ==
    \/ \E files \in FileLists : SubmitBatch(files)
    \/ \E m \in bqueue : BatchPickup(m)
    \/ \E x \in bactive : BatchFanOut(x)
    \/ \E x \in bactive : BatchReturn(x)
    \/ \E x \in bactive : BatchAck(x)
    \/ \E m \in queue : Pickup(m)
    \/ \E a \in active : Advance(a)
    \/ \E a \in active : Succeed(a)
    \/ \E a \in active : Ack(a)
    \/ \E a \in active : WorkerLost(a)
    \/ \E b \in BatchIds : GetBatchStatusTracked(b)

BatchReaderSpec == Init /\ [][BatchReaderNext]_vars

\* the single-job system with the scratch files of the executions
ScratchNext ==
    \/ \E audio \in BOOLEAN : SubmitJob(audio)
    \/ \E m \in queue : Pickup(m)
    \/ \E a \in active : AdvanceScratch(a)
    \/ \E a \in active : SucceedScratch(a)
    \/ \E a \in active : FailScratch(a)
    \/ \E a \in active : Ack(a)
    \/ \E a \in active : WorkerLost(a)
    \/ \E j \in JobIds : RevokeDeliver(j)
    \/ \E j \in JobIds : Expire(j)
    \/ \E j \in JobIds : CancelJob(j)

ScratchSpec == Init /\ [][ScratchNext]_vars

\* a client reading the batch status
ViewNext == \E b \in BatchIds : GetBatchStatus(b)

ViewSpec == ViewInit /\ [][ViewNext]_vars

\* batches: submission, fan-out, the member jobs' executions and batch polling
BatchNext ==
    \/ \E files \in FileLists : SubmitBatch(files)
    \/ \E b \in BatchIds : SubmitBatchReturn(b)
    \/ \E b \in BatchIds : SubmitBatchTimeout(b)
    \/ \E m \in bqueue : BatchPickup(m)
    \/ \E x \in bactive : BatchFanOut(x)
    \/ \E x \in bactive : BatchReturn(x)
    \/ \E x \in bactive : BatchFail(x)
    \/ \E x \in bactive : BatchAck(x)
    \/ \E x \in bactive : BatchWorkerLost(x)
    \/ \E b \in BatchIds : GetBatchStatus(b)
    \/ \E m \in queue : Pickup(m)
    \/ \E a \in active : Advance(a)
    \/ \E a \in active : Succeed(a)
    \/ \E a \in active : Fail(a)
    \/ \E a \in active : Ack(a)

BatchSpec == Init /\ [][BatchNext]_vars

----------------------------------------------------------------------------
(* Properties *)

\* the single jobs with executions that outlast the visibility timeout
RedeliverNext ==
    \/ \E audio \in BOOLEAN : SubmitJob(audio)
    \/ \E m \in queue : Pickup(m)
    \/ \E a \in active : Advance(a)
    \/ \E a \in active : Succeed(a)
    \/ \E a \in active : Fail(a)
    \/ \E a \in active : Ack(a)
    \/ \E a \in active : Redeliver(a)

RedeliverSpec == Init /\ [][RedeliverNext]_vars

\* the executions of one worker process sharing its _model_cache
CacheNext ==
    \/ \E c \in Callers, n \in ModelNames : GetWhisperModel(c, n)
    \/ \E c \in Callers : CacheTest(c)
    \/ \E c \in Callers, ok \in BOOLEAN : LoadModel(c, ok)
    \/ \E c \in Callers : ReturnModel(c)

CacheSpec == Init /\ [][CacheNext]_vars

\* stage 4 as a function of what model.transcribe() returned and of the
\* options: any segment list and any expected_wpm, everything else idle
AnalyzeInit ==
    /\ store = [j \in JobIds |-> NoRecord]
    /\ queue = {}
    /\ active = {}
    /\ nextId = 1
    /\ revokeInFlight = {}
    /\ revoked = {}
    /\ retries = [j \in JobIds |-> 0]
    /\ attempts = [j \in JobIds |-> 0]
    /\ failures = [j \in JobIds |-> 0]
    /\ cancelledRunning = {}
    /\ seen = NoView
    /\ lostCount = 0
    /\ view = NoView
    /\ temp = {}
    /\ bstore = [b \in BatchIds |-> NoBRec]
    /\ bqueue = {}
    /\ bactive = {}
    /\ nextBatch = 1
    /\ bresp = [b \in BatchIds |-> "none"]
    /\ bview = NoBView
    /\ subresp = NoSubmit
    /\ bhist = [b \in BatchIds |-> [files |-> 0, made |-> {}, answer |-> <<>>, last |-> NoBView]]
    /\ result \in SegmentLists
    /\ options \in [expected_wpm : ExpectedWpm]
    /\ metrics = NoMetrics
    /\ model_cache = [n \in ModelNames |-> 0]
    /\ callers = [c \in Callers |-> NoCall]
    /\ loads = [n \in ModelNames |-> 0]

\* "Analyzing speech": the segment loop and the metrics of one execution
AnalyzeSpeech ==
    /\ ~metrics.computed
    /\ metrics' = ReadingMetrics(result, options)
    /\ UNCHANGED <<result, options, model_cache, callers, loads>>
    /\ UNCHANGED <<jobVars, batchVars>>

AnalyzeNext == AnalyzeSpeech

AnalyzeSpec == AnalyzeInit /\ [][AnalyzeNext]_vars

Terminal(j) == store[j].status \in READY_STATES

\* no message, no execution and no revoke of job j is outstanding
Settled(j) ==
    /\ j < nextId
    /\ \A m \in queue : m.id # j
    /\ \A a \in active : a.id # j
    /\ j \notin revokeInFlight

\* C1: every job reaches a terminal status after at most retry_budget + 1
\* execution attempts: no job is ever started more than max_retries + 1 times.
C1_AttemptsWithinBudget ==
    \A j \in JobIds : attempts[j] <= max_retries + 1

\* C2: a failing attempt with retries_used < retry_budget re-enqueues the same
\* job with retries_used + 1, any other failing attempt finalizes FAILURE; so
\* retries_used never exceeds the budget and FAILURE implies retries_used = max_retries.
C2_Budget ==
    /\ \A j \in JobIds : retries[j] <= max_retries
    /\ \A m \in queue : m.retries <= max_retries
    /\ \A a \in active : a.retries <= max_retries
    /\ \A j \in JobIds : store[j].status = "FAILURE" => retries[j] = max_retries

C2_FailingStep ==
    \A j \in JobIds :
        failures'[j] = failures[j] + 1 =>
            IF retries[j] < max_retries
            THEN /\ retries'[j] = retries[j] + 1
                 /\ \E m \in queue' \ queue : m.id = j /\ m.retries = retries[j] + 1
                 /\ store'[j].status = "RETRY"
            ELSE /\ retries'[j] = retries[j]
                 /\ queue' = queue
                 /\ store'[j].status = "FAILURE"

C2_RetryBudget == [][C2_FailingStep /\ C2_Budget']_vars

C2_Witness ==
    \E j \in JobIds :
        /\ store[j].status = "FAILURE"
        /\ retries[j] = max_retries
        /\ failures[j] = max_retries + 1

\* C3: the retry taken when retries_used = k is scheduled with a delay of
\* base_delay * 2^k: 60, 120 and 240 seconds for k = 0, 1, 2.
C3_Delay(k) ==
    CASE k = 0 -> base_delay
      [] k = 1 -> base_delay + base_delay
      [] k = 2 -> base_delay + base_delay + base_delay + base_delay

C3_Backoff ==
    /\ base_delay = 60
    /\ \A m \in queue : m.retries >= 1 => m.countdown = C3_Delay(m.retries - 1)
    /\ \A a \in active : a.retries >= 1 => a.countdown = C3_Delay(a.retries - 1)

C3_Witness ==
    \E m \in queue : m.retries = max_retries /\ m.countdown = 240

\* C4: the percents a polling reader gets for one job never decrease over the
\* whole life of the job, a failed attempt followed by a retry included (no
\* worker is lost).
C4_ReaderMonotone ==
    [][(seen.job # 0 /\ seen'.job = seen.job /\ lostCount' = 0)
          => seen'.progress >= seen.progress]_vars

\* C4 as amended: the percents stored by one execution attempt never decrease,
\* so a reader polling while that attempt runs sees no decrease.
C4_AttemptMonotone ==
    [][\A j \in JobIds :
          (/\ store[j].status = "PROGRESS"
           /\ store'[j].status = "PROGRESS"
           /\ store'[j].att = store[j].att)
          => store'[j].progress >= store[j].progress]_vars

C4_Witness ==
    \E j \in JobIds :
        /\ store[j].status = "PROGRESS"
        /\ store[j].progress = 90
        /\ store[j].att >= 2
        /\ seen.job = j
        /\ seen.progress = 90

\* C5: once a Job Record is SUCCESS, FAILURE or REVOKED no later operation
\* changes it (expiry of the record aside).
C5_TerminalAbsorbing ==
    [][\A j \in JobIds :
          (Terminal(j) /\ store'[j] # NoRecord) => store'[j] = store[j]]_vars

\* C6: a job cancelled while it was executing in PROGRESS never ends in
\* SUCCESS or FAILURE.
C6_CancelWins ==
    \A j \in cancelledRunning :
        Settled(j) => store[j].status \notin {"SUCCESS", "FAILURE"}

\* C7: a job cancelled before any worker picked it up is never started: no
\* stage runs and its status never becomes PROGRESS.
C7_PendingCancelSkipsRun ==
    [][\A j \in JobIds :
          (j \in revokeInFlight \cup revoked /\ attempts[j] = 0)
          => (attempts'[j] = 0 /\ store'[j].status # "PROGRESS")]_vars

\* C8: cancelling a job that is already terminal leaves its Job Record as it was.
C8_CancelTerminalNoOp ==
    [][\A j \in JobIds :
          (/\ Terminal(j)
           /\ j \in revokeInFlight \cup revoked \cup revokeInFlight'
           /\ <<revokeInFlight', revoked'>> # <<revokeInFlight, revoked>>)
          => store'[j] = store[j]]_vars

\* C9: the status endpoint answers NotFound for an id the store holds no
\* record of; it never returns a view for it.
C9_NotFound ==
    (view.job # 0 /\ ~view.found) => view.status = "NotFound"

\* C10: the batch status endpoint answers NotFound for a batch id the store
\* does not know; it never returns a view (such as PENDING, not ready) for it.
C10_BatchNotFound ==
    (bview.batch # 0 /\ ~bview.found) => bview.kind = "NotFound"

C12_Payloads ==
    view.job # 0 =>
        /\ view.result # "null" <=> view.status = "SUCCESS"
        /\ view.error # "null" <=> view.status = "FAILURE"
        /\ view.status = "REVOKED" => (view.result = "null" /\ view.error = "null")

\* C13: once a poll has shown a job terminal, every later poll of that job
\* made before its record expires returns the identical view.
C13_ReadIdempotent ==
    (seen.job # 0 /\ view.job = seen.job) => view = seen

\* C14: a submit_batch of more than 50 files is refused as invalid input
\* (HTTP 400) and changes nothing: no job record, no batch record, no message.
C14_OversizedRejected ==
    [][(subresp' # subresp /\ subresp'.files > 50)
          => /\ subresp'.code = 400
             /\ ~subresp'.queued
             /\ UNCHANGED <<store, queue, active, nextId, bstore, bqueue, bactive, nextBatch, bresp>>]_vars

C14_Witness ==
    subresp.files = 51 /\ subresp.code = 400

\* C15: a submit_batch with a member that is not audio is refused as invalid
\* input (HTTP 400, as for an oversized batch), wherever the member stands.
C15_BadMemberRejected ==
    (subresp.bad /\ subresp.files <= 50) => subresp.code = 400

\* the job ids a batch record lists
Listed(b) == {bstore[b].jobs[k] : k \in 1..Len(bstore[b].jobs)}

\* C16: once the batch task of an N-file submission has succeeded, its record
\* lists N distinct job ids, and they are exactly the jobs created for the
\* batch: no job of the batch is left out of the record, retries included.
C16_ExactFanOut ==
    \A b \in BatchIds :
        bstore[b].status = "SUCCESS" =>
            /\ Len(bstore[b].jobs) = bhist[b].files
            /\ Cardinality(Listed(b)) = bhist[b].files
            /\ Listed(b) = bhist[b].made

\* the job ids of a batch view, in the order of its jobs list
ViewIds(v) == [k \in 1..Len(v.jobs) |-> v.jobs[k].job_id]

\* C17: every get_batch_status of a batch whose submission returned its Batch
\* Record reports that record's members: the same total_jobs and the same job
\* ids in the same order.
C17_MembershipImmutable ==
    (bview.batch # 0 /\ bresp[bview.batch] = "ok") =>
        /\ bview.kind = "summary"
        /\ bview.total_jobs = Len(bhist[bview.batch].answer)
        /\ ViewIds(bview) = bhist[bview.batch].answer

\* the member jobs the stored record of batch b lists are all terminal
AllMembersTerminal(b) ==
    \A k \in 1..Len(bstore[b].jobs) :
        store[bstore[b].jobs[k]].status \in {"SUCCESS", "FAILURE", "REVOKED"}

\* C18: for a batch the store knows, the status get_batch_status returns is
\* COMPLETED if every member job is terminal and IN_PROGRESS otherwise; the
\* stored status of the batch has no part in it.
C18_StatusOfExistingBatch ==
    (bview.batch # 0 /\ bview.found) =>
        bview.status = IF AllMembersTerminal(bview.batch) THEN "COMPLETED" ELSE "IN_PROGRESS"

\* C18 as amended: for a batch whose fan-out task has succeeded, the status is
\* COMPLETED iff every member job listed is terminal, IN_PROGRESS otherwise.
C18_SummaryStatus ==
    (bview.batch # 0 /\ bstore[bview.batch].status = "SUCCESS") =>
        /\ bview.kind = "summary"
        /\ bview.status = IF AllMembersTerminal(bview.batch) THEN "COMPLETED" ELSE "IN_PROGRESS"

C18_Witness ==
    /\ bview.kind = "summary"
    /\ bview.total_jobs = 2
    /\ bview.status = "IN_PROGRESS"
    /\ \E k \in 1..2 : store[bview.jobs[k].job_id].status = "REVOKED"
    /\ \E k \in 1..2 : store[bview.jobs[k].job_id].status = "PROGRESS"

\* C19: in every batch summary, completed_jobs is the number of member jobs in
\* a terminal state and failed_jobs the number of member jobs in FAILURE (a
\* REVOKED member is not a failed one), so 0 <= failed <= completed <= total.
C19_Counts ==
    bview.kind = "summary" =>
        LET ids == bstore[bview.batch].jobs
            terminal == {k \in 1..Len(ids) : store[ids[k]].status \in {"SUCCESS", "FAILURE", "REVOKED"}}
            failure == {k \in 1..Len(ids) : store[ids[k]].status = "FAILURE"}
        IN  /\ bview.completed_jobs = Cardinality(terminal)
            /\ bview.failed_jobs = Cardinality(failure)
            /\ 0 <= bview.failed_jobs
            /\ bview.failed_jobs <= bview.completed_jobs
            /\ bview.completed_jobs <= bview.total_jobs

\* C20: across successive summaries of one batch, completed_jobs and
\* progress_percentage never decrease.
C20_BatchProgressMonotone ==
    [][\A b \in BatchIds :
          (bhist[b].last # NoBView /\ bhist'[b].last # bhist[b].last)
          => /\ bhist'[b].last.completed_jobs >= bhist[b].last.completed_jobs
             /\ bhist'[b].last.progress_percentage >= bhist[b].last.progress_percentage]_vars

\* C21: no scratch file of an attempt that has ended remains, whether the
\* attempt ended by success, by an exception or by cancellation (workers
\* that are lost aside).
C21_ScratchReleased ==
    lostCount = 0 =>
        \A f \in temp : \E a \in active : Executing(a, f[1]) /\ attempts[f[1]] = f[2]

\* C22: the status a JobView shows is always one of PENDING, PROGRESS,
\* SUCCESS, FAILURE, REVOKED, also while the job waits out a retry delay.
C22_StatusDomain ==
    view.job # 0 => view.status \in {"PENDING", "PROGRESS", "SUCCESS", "FAILURE", "REVOKED"}

\* the gaps between consecutive segments of a list
Gaps(segs) == {i \in 2..Len(segs) : segs[i].start - segs[i - 1].end > PauseGap}

\* C23: pause_count is the number of consecutive segment pairs whose gap is
\* strictly above 500 ms (a gap of exactly 500 ms is none), segments
\* (0,2),(3,4) give pause_count 1, and the total duration is the largest
\* segment end.
C23_PausesAndDuration ==
    metrics.computed =>
        /\ metrics.pause_count = Cardinality(Gaps(result))
        /\ (Len(result) = 2 /\ result[2].start - result[1].end = PauseGap) =>
              metrics.pause_count = 0
        /\ result # <<>> =>
              /\ \E i \in 1..Len(result) : metrics.total_duration = result[i].end
              /\ \A i \in 1..Len(result) : metrics.total_duration >= result[i].end
        /\ (/\ Len(result) = 2
            /\ <<result[1].start, result[1].end>> = <<0, 20>>
            /\ <<result[2].start, result[2].end>> = <<30, 40>>) => metrics.pause_count = 1

C23_Witness ==
    /\ metrics.computed
    /\ Len(result) = 2
    /\ result[2].start - result[1].end = PauseGap
    /\ result[2].end = 600
    /\ metrics.pause_count = 0
    /\ metrics.total_duration = 600

\* C24: a worker loss is charged to the retry budget like an exception: the
\* job of the lost worker is requeued with one more retry used, or is
\* finalized FAILURE.
C24_LossCharged ==
    [][\A a \in active :
          (lostCount' = lostCount + 1 /\ a \notin active') =>
              \/ \E m \in queue' : m.id = a.id /\ m.retries = a.retries + 1
              \/ store'[a.id].status = "FAILURE"]_vars

\* C25: once cancel has been issued for a job in execution, that execution
\* writes no further PROGRESS or SUCCESS state for the job.
C25_NoWriteAfterCancel ==
    [][\A j \in cancelledRunning :
          (MidExecution(j) /\ store'[j] # store[j]) =>
              store'[j].status \notin {"PROGRESS", "SUCCESS"}]_vars

\* C26: at every moment at most one execution holds a delivery of a given
\* job and writes its record; redelivery never makes two executions of the
\* same job run at the same time.
C26_SingleWriter ==
    \A j \in JobIds : Cardinality({a \in active : Executing(a, j)}) <= 1

\* C27: the retry delays of the batch submission job double like those of
\* the single job: the delay before retry k+1 is twice the delay before
\* retry k.
C27_BatchBackoffDoubles ==
    [][\A x \in bactive : \A m \in bqueue' \ bqueue :
          (m.id = x.id /\ x.retries >= 1 /\ m.retries = x.retries + 1) =>
              m.countdown = 2 * x.countdown]_vars

\* C28: stage 4 never divides by zero and the fluency score lies in [0, 100]:
\* words_per_minute is 0 for a total duration of 0, the wpm component is 0
\* for expected_wpm <= 0 and at most 1, the pause component is 0 for no
\* words and never negative; 100 words in 60 s with expected_wpm 100 and no
\* pause give 100 words per minute and a fluency score of 100.
C28_FluencyGuarded ==
    metrics.computed =>
        /\ ~Raised(metrics.words_per_minute)
        /\ ~Raised(metrics.wpm_score)
        /\ ~Raised(metrics.pause_penalty)
        /\ ~Raised(metrics.fluency_score)
        /\ ~Less(metrics.fluency_score, Whole(0))
        /\ ~Less(Whole(100), metrics.fluency_score)
        /\ metrics.total_duration = 0 => metrics.words_per_minute = Whole(0)
        /\ options.expected_wpm <= 0 => metrics.wpm_score = Whole(0)
        /\ ~Less(Whole(1), metrics.wpm_score)
        /\ metrics.total_words = 0 => metrics.pause_penalty = Whole(0)
        /\ ~Less(metrics.pause_penalty, Whole(0))
        /\ (/\ metrics.total_words = 100
            /\ metrics.total_duration = 600
            /\ options.expected_wpm = 100
            /\ metrics.pause_count = 0) =>
                /\ metrics.words_per_minute = Whole(100)
                /\ metrics.fluency_score = Whole(100)

C28_Witness ==
    /\ metrics.computed
    /\ options.expected_wpm = 0
    /\ metrics.total_words > 0
    /\ metrics.total_duration > 0
    /\ metrics.pause_count = 0
    /\ metrics.wpm_score = Whole(0)
    /\ metrics.fluency_score = Whole(30)

\* C29: under any interleaving of the executions that ask one cache for the
\* same model, the load runs once and all of them get the same instance.
C29_LoadOnce ==
    /\ \A n \in ModelNames : loads[n] <= 1
    /\ \A c, d \in Callers :
          (/\ callers[c].pc = "returned"
           /\ callers[d].pc = "returned"
           /\ callers[c].model_name = callers[d].model_name) =>
              callers[c].model = callers[d].model

\* C30: when POST /queue/submit-batch has answered with an error, no member
\* job of that submission has been enqueued and none is enqueued later.
C30_ErrorMeansNothingEnqueued ==
    \A b \in BatchIds : bresp[b] = "error" => bhist[b].made = {}

====
